---- MODULE Spec2Model ----
(***************************************************************************)
(* Reconciliation passes of the Cloudflare and OVH providers of dnscontrol. *)
(*                                                                         *)
(* Strings of the program are modelled as follows.  A record target is the *)
(* sequence of its comma-separated fields (strings.Split(t, ",") is the    *)
(* sequence itself, fmt.Sprintf("%s,%d,%d", t, p, c) appends two fields).   *)
(* A metadata map is a record over the keys the code reads; a key that is  *)
(* absent holds "", which is what a Go map read returns for it and the     *)
(* only thing the code ever tests.                                         *)
(***************************************************************************)
EXTENDS Integers, Sequences, FiniteSets, TLC

\* ------------------------------------------------------------- bounds
MaxDesired == 2   \* longest desired record list
MaxActual == 2    \* longest list of provider records
MaxPasses == 2    \* reconciliation passes per behaviour
MaxPreRuns == 2   \* direct calls of preprocessConfig per behaviour
MaxSPFDepth == 4  \* deepest nest of Parse calls followed

\* ------------------------------------------------------------- constants
metaProxy == "cloudflare_proxy"
metaProxyDefault == "cloudflare_proxy_default"
metaOriginalIP == "original_ip"
metaUniversalSSL == "cloudflare_universalssl"

ZoneName == "example.com"

NoErr == "nil"

\* ------------------------------------------------------------- strings
\* strings.ToLower on the metadata values of the model.
ToLower(v) ==
  CASE v = "ON" -> "on"
    [] v = "OFF" -> "off"
    [] v = "FULL" -> "full"
    [] v = "BAD" -> "bad"
    [] OTHER -> v

\* rec.GetLabel(): the label of a fully qualified name relative to the zone;
\* dnsutil.TrimDomainName gives "@" for the apex.
TrimDomainName(fqdn) ==
  CASE fqdn = "example.com" -> "@"
    [] fqdn = "www.example.com" -> "www"
    [] fqdn = "x.example.com" -> "x"
    [] OTHER -> fqdn

\* rec.GetLabelFQDN(): the fully qualified name of a label of the zone.
LabelFQDN(label) ==
  CASE label = "@" -> "example.com"
    [] label = "www" -> "www.example.com"
    [] label = "x" -> "x.example.com"
    [] OTHER -> label

\* net.ParseIP on the addresses of the model: 0 stands for nil (no address).
ParseIP(s) ==
  CASE s = "10.0.0.1" -> 1
    [] s = "10.0.0.2" -> 2
    [] s = "10.0.0.3" -> 3
    [] OTHER -> 0

\* net.IP.String()
IPString(n) ==
  CASE n = 1 -> "10.0.0.1"
    [] n = 2 -> "10.0.0.2"
    [] n = 3 -> "10.0.0.3"
    [] OTHER -> "<nil>"

\* transform.TransformIP: the first conversion whose range holds the address
\* maps it to the same offset from the new base; an address in no range is kept.
RECURSIVE TransformIP(_, _)
TransformIP(ip, conversions) ==
  IF conversions = <<>> THEN ip
  ELSE LET cv == Head(conversions)
       IN IF cv.Low <= ip /\ ip <= cv.High
          THEN cv.NewBase + (ip - cv.Low)
          ELSE TransformIP(ip, Tail(conversions))

labelMatches(label, matches) ==
  \E i \in 1..Len(matches) : label = matches[i]

\* ------------------------------------------------------------- preprocessConfig
\* checkProxyVal accepting a value in any letter case and returning it as given.
checkProxyValKeepCase(v) ==
  LET lv == ToLower(v)
  IN IF lv # "on" /\ lv # "off" /\ lv # "full"
     THEN [err |-> "bad_proxy", v |-> "", msg |-> lv]
     ELSE [err |-> NoErr, v |-> v, msg |-> ""]

\* checkProxyVal: msg is the value the error message holds.
checkProxyVal(v) ==
  LET lv == ToLower(v)
  IN IF lv # "on" /\ lv # "off" /\ lv # "full"
     THEN [err |-> "bad_proxy", v |-> "", msg |-> lv]
     ELSE [err |-> NoErr, v |-> lv, msg |-> ""]

\* Lines 303-308: the TTL of one desired record.
NormalizeTTLNo300(ttl) ==
  LET t == IF ttl = 0 THEN 1 ELSE ttl
  IN IF t # 1 /\ t < 120 THEN 120 ELSE t

NormalizeTTL(ttl) ==
  LET t == IF ttl = 0 \/ ttl = 300 THEN 1 ELSE ttl
  IN IF t # 1 /\ t < 120 THEN 120 ELSE t

IsProxyType(t) == t = "A" \/ t = "CNAME" \/ t = "AAAA" \/ t = "ALIAS"

IsRedirectType(t) == t = "CF_REDIRECT" \/ t = "CF_TEMP_REDIRECT"

\* Lines 328-344 with currentPrPrio left as it is after a redirect.
PreprocessRedirectSamePrio(r2, manageRedirects, prio) ==
  IF ~IsRedirectType(r2.Type) THEN [err |-> NoErr, rec |-> r2, prio |-> prio, msg |-> ""]
  ELSE IF ~manageRedirects THEN [err |-> "redirects_disabled", rec |-> r2, prio |-> prio, msg |-> ""]
  ELSE IF Len(r2.Target) # 2 THEN [err |-> "bad_redirect", rec |-> r2, prio |-> prio, msg |-> ""]
  ELSE [err |-> NoErr, prio |-> prio, msg |-> "",
        rec |-> [r2 EXCEPT !.Type = "PAGE_RULE",
                           !.Target = @ \o <<ToString(prio),
                                             IF r2.Type = "CF_TEMP_REDIRECT"
                                             THEN ToString(302) ELSE ToString(301)>>]]

\* Lines 328-344 of one iteration: a redirect record becomes a PAGE_RULE record
\* "from,to,priority,code".
PreprocessRedirect(r2, manageRedirects, prio) ==
  IF ~IsRedirectType(r2.Type) THEN [err |-> NoErr, rec |-> r2, prio |-> prio, msg |-> ""]
  ELSE IF ~manageRedirects THEN [err |-> "redirects_disabled", rec |-> r2, prio |-> prio, msg |-> ""]
  ELSE IF Len(r2.Target) # 2 THEN [err |-> "bad_redirect", rec |-> r2, prio |-> prio, msg |-> ""]
  ELSE [err |-> NoErr, prio |-> prio + 1, msg |-> "",
        rec |-> [r2 EXCEPT !.Type = "PAGE_RULE",
                           !.Target = @ \o <<ToString(prio),
                                             IF r2.Type = "CF_TEMP_REDIRECT"
                                             THEN ToString(302) ELSE ToString(301)>>]]

\* Lines 310-326 of one iteration: the record's cloudflare_proxy.
PreprocessProxy(r1, defProxy, manageRedirects, prio) ==
  IF ~IsProxyType(r1.Type)
  THEN IF r1.Metadata[metaProxy] # ""
       THEN [err |-> "proxy_on_type", rec |-> r1, prio |-> prio, msg |-> r1.Metadata[metaProxy]]
       ELSE PreprocessRedirect([r1 EXCEPT !.Metadata[metaProxy] = "off"],
                               manageRedirects, prio)
  ELSE IF r1.Metadata[metaProxy] = ""
       THEN PreprocessRedirect([r1 EXCEPT !.Metadata[metaProxy] = defProxy],
                               manageRedirects, prio)
       ELSE IF checkProxyVal(r1.Metadata[metaProxy]).err # NoErr
       THEN [err |-> checkProxyVal(r1.Metadata[metaProxy]).err, rec |-> r1, prio |-> prio,
             msg |-> checkProxyVal(r1.Metadata[metaProxy]).msg]
       ELSE PreprocessRedirect([r1 EXCEPT !.Metadata[metaProxy] = checkProxyVal(@).v],
                               manageRedirects, prio)

\* One iteration of the loop of lines 295-345 on record rec: the record as the
\* iteration leaves it (also when it returns an error), the error, and the next
\* page rule priority.
PreprocessRecord(rec, defProxy, manageRedirects, prio) ==
  PreprocessProxy([rec EXCEPT !.TTL = NormalizeTTL(@)], defProxy, manageRedirects, prio)

\* The loop of lines 294-345 from index i down to 1, s being what the iteration
\* before (on index i + 1) left.
RECURSIVE PreprocessLoop(_, _, _, _, _)
PreprocessLoop(recs, i, defProxy, manageRedirects, s) ==
  IF s.err # NoErr \/ i = 0 THEN [err |-> s.err, recs |-> recs, msg |-> s.msg]
  ELSE PreprocessLoop([recs EXCEPT ![i] =
                         PreprocessRecord(@, defProxy, manageRedirects, s.prio).rec],
                      i - 1, defProxy, manageRedirects,
                      PreprocessRecord(recs[i], defProxy, manageRedirects, s.prio))

\* Lines 356-365: the address of a "full" record is converted, the declared one
\* kept as original_ip.
TransformRecord(rec, ip, conversions) ==
  [rec EXCEPT !.Metadata[metaOriginalIP] = rec.Target[1],
              !.Target = <<IPString(TransformIP(ip, conversions))>>]

TargetIP(rec) == IF Len(rec.Target) = 1 THEN ParseIP(rec.Target[1]) ELSE 0

\* The loop of lines 348-366, from index i up to the end.
RECURSIVE TransformLoop(_, _, _)
TransformLoop(recs, i, conversions) ==
  IF i > Len(recs) THEN [err |-> NoErr, recs |-> recs]
  ELSE IF recs[i].Type # "A" \/ recs[i].Metadata[metaProxy] # "full"
  THEN TransformLoop(recs, i + 1, conversions)
  ELSE IF TargetIP(recs[i]) = 0 THEN [err |-> "bad_ip", recs |-> recs]
  ELSE TransformLoop([recs EXCEPT ![i] = TransformRecord(@, TargetIP(@), conversions)],
                     i + 1, conversions)

\* Lines 347-368: the second loop, on what the first one (loop) left.
PreprocessTransform(dc, tr) ==
  [err |-> tr.err, dc |-> [dc EXCEPT !.Records = tr.recs], msg |-> ""]

PreprocessRecords(c, dc, loop) ==
  IF loop.err # NoErr
  THEN [err |-> loop.err, dc |-> [dc EXCEPT !.Records = loop.recs], msg |-> loop.msg]
  ELSE PreprocessTransform(dc, TransformLoop(loop.recs, 1, c.ipConversions))

\* Lines 270-280: the zone's default for cloudflare_proxy.
DefaultProxy(dc) ==
  IF dc.Metadata[metaProxyDefault] = "" THEN [err |-> NoErr, v |-> "off", msg |-> ""]
  ELSE checkProxyVal(dc.Metadata[metaProxyDefault])

\* c.preprocessConfig(dc): the error it returns and dc as the call leaves it (the
\* records are changed in place, so a failing call leaves what it did so far).
preprocessConfig(c, dc) ==
  IF DefaultProxy(dc).err # NoErr
  THEN [err |-> DefaultProxy(dc).err, dc |-> dc, msg |-> DefaultProxy(dc).msg]
  ELSE IF /\ dc.Metadata[metaUniversalSSL] # ""
          /\ ToLower(dc.Metadata[metaUniversalSSL]) # "on"
          /\ ToLower(dc.Metadata[metaUniversalSSL]) # "off"
  THEN [err |-> "bad_universalssl", dc |-> dc, msg |-> ToLower(dc.Metadata[metaUniversalSSL])]
  ELSE PreprocessRecords(c, dc,
         PreprocessLoop(dc.Records, Len(dc.Records), DefaultProxy(dc).v, c.manageRedirects,
                        [err |-> NoErr, prio |-> 1, msg |-> ""]))

\* ------------------------------------------------------------- canonical records
\* The Original of a desired record (nil): no provider record stands behind it.
NilOriginal == [ID |-> 0]

NoMetadata == [cloudflare_proxy |-> "", original_ip |-> ""]

\* models.RecordConfig, the fields the providers read.
RecordConfig(name, type, target, ttl, pref, original) ==
  [Name |-> name, Type |-> type, Target |-> target, TTL |-> ttl,
   MxPreference |-> pref, Metadata |-> NoMetadata, Original |-> original]

NilRecord == RecordConfig("", "", <<>>, 0, 0, NilOriginal)

\* json.Number.Int64() on the priorities of the model: -1 stands for an error.
PriorityInt64(p) ==
  CASE p = "10" -> 10
    [] p = "20" -> 20
    [] OTHER -> -1

\* RecordConfig.PopulateFromString: whether the content parses as the type.
PopulateFails(rType, content) ==
  (rType = "A" /\ ParseIP(content) = 0)

\* Lines 459-472: the record as nativeToRecord rewrites it in place: an absolute
\* content for the types that hold a name, TXT for SPF.
cfNormalized(cf) ==
  [cf EXCEPT !.Content = IF cf.Type \in {"CNAME", "MX", "NS", "SRV"} THEN @ \o "." ELSE @,
             !.Type = IF @ = "SPF" THEN "TXT" ELSE @]

cfPriority(cf) == IF cf.Priority = "" THEN 0 ELSE PriorityInt64(cf.Priority)

\* Lines 474-499: whether the conversion of the rewritten record fails.
cfUnparsable(n) ==
  IF n.Type = "MX" THEN cfPriority(n) < 0 ELSE PopulateFails(n.Type, n.Content)

cfCanonical(n) ==
  RecordConfig(TrimDomainName(n.Name), n.Type, <<n.Content>>, n.TTL,
               IF n.Type = "MX" THEN cfPriority(n) ELSE 0, n)

\* nativeToRecord leaving out a record that does not convert.
cfNativeToRecordDropping(cf) ==
  [panic |-> FALSE, drop |-> cfUnparsable(cfNormalized(cf)),
   rec |-> cfCanonical(cfNormalized(cf))]

\* cfRecord.nativeToRecord: the canonical record of a Cloudflare record, or a panic.
cfNativeToRecord(cf) ==
  [panic |-> cfUnparsable(cfNormalized(cf)), drop |-> FALSE,
   rec |-> cfCanonical(cfNormalized(cf))]

ovhType(r) == IF r.FieldType = "SPF" \/ r.FieldType = "DKIM" THEN "TXT" ELSE r.FieldType

\* ovh nativeToRecord: nil (drop) for the SOA record, a panic for an unparsable one.
ovhNativeToRecord(r) ==
  IF r.FieldType = "SOA"
  THEN [panic |-> FALSE, drop |-> TRUE, rec |-> NilRecord]
  ELSE [panic |-> PopulateFails(ovhType(r), r.Target), drop |-> FALSE,
        rec |-> RecordConfig(IF r.SubDomain = "" THEN "@" ELSE r.SubDomain, ovhType(r),
                             <<r.Target>>, IF r.TTL = 0 THEN 3600 ELSE r.TTL, 0, r)]

NativeToRecord(native, provider) ==
  IF provider = "ovh" THEN ovhNativeToRecord(native) ELSE cfNativeToRecord(native)

\* The conversion of a fetched list from index i on, record by record; a panic
\* ends it.
RECURSIVE ConvertFrom(_, _, _, _)
ConvertFrom(natives, i, provider, recs) ==
  IF i > Len(natives) THEN [panic |-> FALSE, recs |-> recs]
  ELSE IF NativeToRecord(natives[i], provider).panic THEN [panic |-> TRUE, recs |-> <<>>]
  ELSE ConvertFrom(natives, i + 1, provider,
                   IF NativeToRecord(natives[i], provider).drop THEN recs
                   ELSE Append(recs, NativeToRecord(natives[i], provider).rec))

ConvertAll(natives, provider) == ConvertFrom(natives, 1, provider, <<>>)

\* getPageRules: each page rule of the zone as a PAGE_RULE record at the apex.
RECURSIVE PageRuleRecords(_)
PageRuleRecords(rules) ==
  IF rules = <<>> THEN <<>>
  ELSE <<RecordConfig("@", "PAGE_RULE", Head(rules).Target, 1, 0, Head(rules))>>
       \o PageRuleRecords(Tail(rules))

\* ------------------------------------------------------------- differ
\* getProxyMetadata: the provider's comparator, "" standing for a nil map.
getProxyMetadata(r) ==
  IF r.Type # "A" /\ r.Type # "AAAA" /\ r.Type # "CNAME" THEN ""
  ELSE IF r.Original.ID # 0
       THEN (IF r.Original.Proxied THEN "true" ELSE "false")
       ELSE (IF r.Metadata[metaProxy] # "off" THEN "true" ELSE "false")

\* The comparator of diff.New(dc) with no extra-value function (OVH).
NoExtraValues(r) == ""

ExtraValues(r, provider) ==
  IF provider = "cloudflare" THEN getProxyMetadata(r) ELSE NoExtraValues(r)

\* The matching key of the differ: label, type and value.
SameKey(d, e) ==
  /\ d.Name = e.Name
  /\ d.Type = e.Type
  /\ d.Target = e.Target
  /\ d.MxPreference = e.MxPreference

\* The first existing record not yet matched that has the key of d; 0 if none.
FirstMatch(d, existing, used) ==
  LET js == {j \in 1..Len(existing) : j \notin used /\ SameKey(d, existing[j])}
  IN IF js = {} THEN 0 ELSE CHOOSE j \in js : \A k \in js : j <= k

Correlation(e, d) == [Existing |-> e, Desired |-> d]

\* One step of the differ: desired record d against the existing record of index
\* j that has its key (0: none), rest being the partition of the records after d.
DiffOne(d, existing, j, provider, rest) ==
  IF j = 0 THEN [rest EXCEPT !.create = <<Correlation(NilRecord, d)>> \o @]
  ELSE IF /\ d.TTL = existing[j].TTL
          /\ ExtraValues(d, provider) = ExtraValues(existing[j], provider)
  THEN [rest EXCEPT !.unchanged = <<Correlation(existing[j], d)>> \o @]
  ELSE [rest EXCEPT !.mod = <<Correlation(existing[j], d)>> \o @]

Unmatched(existing, used) ==
  SelectSeq([j \in 1..Len(existing) |-> [at |-> j, rec |-> existing[j]]],
            LAMBDA x : x.at \notin used)

\* differ.IncrementalDiff: desired records are matched in order against the
\* existing ones by key; a matched pair is a modification when TTL or the
\* comparator's values differ; unmatched desired records are created, unmatched
\* existing ones deleted.
RECURSIVE DiffFrom(_, _, _, _, _)
DiffFrom(desired, i, existing, used, provider) ==
  IF i > Len(desired)
  THEN [unchanged |-> <<>>, create |-> <<>>, mod |-> <<>>,
        del |-> [k \in 1..Len(Unmatched(existing, used)) |->
                  Correlation(Unmatched(existing, used)[k].rec, NilRecord)]]
  ELSE DiffOne(desired[i], existing, FirstMatch(desired[i], existing, used), provider,
               DiffFrom(desired, i + 1, existing,
                        used \cup ({FirstMatch(desired[i], existing, used)} \ {0}),
                        provider))

IncrementalDiff(desired, existing, provider) ==
  DiffFrom(desired, 1, existing, {}, provider)

\* ------------------------------------------------------------- corrections
\* models.Correction: what the deferred action does when it is run.
Correction(kind, e, d, proxy, newState) ==
  [kind |-> kind, Existing |-> e, Desired |-> d, proxy |-> proxy, newState |-> newState]

RecordKinds == {"delete", "create", "modify"}

ZoneKinds == {"refresh", "universalssl"}

MapSeq(s, Op(_)) == [i \in 1..Len(s) |-> Op(s[i])]

DeleteCorrections(del) ==
  MapSeq(del, LAMBDA x : Correction("delete", x.Existing, NilRecord, FALSE, FALSE))

CreateCorrections(create) ==
  MapSeq(create, LAMBDA x : Correction("create", NilRecord, x.Desired, FALSE, FALSE))

\* Lines 180-196: the proxy flag a modification writes.
cfModifyCorrections(mod) ==
  MapSeq(mod, LAMBDA x :
    Correction("modify", x.Existing, x.Desired,
               IF x.Desired.Type = "PAGE_RULE" THEN FALSE
               ELSE x.Existing.Original.Proxiable /\ x.Desired.Metadata[metaProxy] # "off",
               FALSE))

ovhModifyCorrections(mod) ==
  MapSeq(mod, LAMBDA x : Correction("modify", x.Existing, x.Desired, FALSE, FALSE))

\* Lines 156-196 (Cloudflare) and 112-135 (OVH): the record-level corrections.
RecordCorrectionsCreateFirst(diff, provider) ==
  CreateCorrections(diff.create) \o DeleteCorrections(diff.del)
  \o (IF provider = "cloudflare" THEN cfModifyCorrections(diff.mod)
      ELSE ovhModifyCorrections(diff.mod))

RecordCorrections(diff, provider) ==
  DeleteCorrections(diff.del) \o CreateCorrections(diff.create)
  \o (IF provider = "cloudflare" THEN cfModifyCorrections(diff.mod)
      ELSE ovhModifyCorrections(diff.mod))

\* ------------------------------------------------------------- GetDomainCorrections
RemoveAt(s, i) == SubSeq(s, 1, i - 1) \o SubSeq(s, i + 1, Len(s))

\* Lines 115-122 with the label left untrimmed: the fully qualified name is
\* compared with the ignore-list.
RECURSIVE FilterIgnoredUntrimmed(_, _, _)
FilterIgnoredUntrimmed(records, i, ignoredLabels) ==
  IF i = 0 THEN records
  ELSE IF labelMatches(records[i].Original.Name, ignoredLabels)
       THEN FilterIgnoredUntrimmed(RemoveAt(records, i), i - 1, ignoredLabels)
       ELSE FilterIgnoredUntrimmed(records, i - 1, ignoredLabels)

\* Lines 115-122: the fetched records without those of an ignored label, from
\* index i down to 1.
RECURSIVE FilterIgnored(_, _, _)
FilterIgnored(records, i, ignoredLabels) ==
  IF i = 0 THEN records
  ELSE IF labelMatches(TrimDomainName(records[i].Original.Name), ignoredLabels)
       THEN FilterIgnored(RemoveAt(records, i), i - 1, ignoredLabels)
       ELSE FilterIgnored(records, i - 1, ignoredLabels)

\* Lines 132-141 on one desired record: ALIAS becomes CNAME, a proxied record
\* gets TTL 1.
ForceRecord(rec) ==
  [rec EXCEPT !.Type = IF @ = "ALIAS" THEN "CNAME" ELSE @,
              !.TTL = IF rec.Metadata[metaProxy] # "off" THEN 1 ELSE @]

\* Lines 132-145 from index i on: a desired label of the ignore-list ends the
\* process (log.Fatalf) at that record.
RECURSIVE ForceLoop(_, _, _)
ForceLoop(recs, i, ignoredLabels) ==
  IF i > Len(recs) THEN [fatal |-> FALSE, recs |-> recs]
  ELSE IF labelMatches(recs[i].Name, ignoredLabels)
  THEN [fatal |-> TRUE, recs |-> [recs EXCEPT ![i] = ForceRecord(@)]]
  ELSE ForceLoop([recs EXCEPT ![i] = ForceRecord(@)], i + 1, ignoredLabels)

\* strings.HasSuffix(target, ".ns.cloudflare.com.") on the targets of the model.
IsCloudflareNS(target) ==
  target = "ns1.ns.cloudflare.com."

\* checkNSModifications: the targets its warnings name, in order.
checkNSWarnings(dc) ==
  MapSeq(SelectSeq(dc.Records, LAMBDA rec : /\ rec.Type = "NS"
                                            /\ LabelFQDN(rec.Name) = dc.Name
                                            /\ ~IsCloudflareNS(rec.Target[1])),
         LAMBDA rec : rec.Target[1])

\* checkNSModifications dropping the NS records of every label.
checkNSModificationsAnyLabel(dc) ==
  [dc EXCEPT !.Records = SelectSeq(@, LAMBDA rec : ~(rec.Type = "NS"))]

\* checkNSModifications: dc without its apex NS records.
checkNSModifications(dc) ==
  [dc EXCEPT !.Records =
     SelectSeq(@, LAMBDA rec : ~(rec.Type = "NS" /\ LabelFQDN(rec.Name) = dc.Name))]

\* c.checkUniversalSSL: getUniversalSSL is called only when the metadata is set.
checkUniversalSSL(dc, remote) ==
  IF dc.Metadata[metaUniversalSSL] = ""
  THEN [changed |-> FALSE, newState |-> FALSE, err |-> "not_set", calls |-> <<>>]
  ELSE IF remote.sslError
  THEN [changed |-> FALSE, newState |-> FALSE, err |-> "ssl_state",
        calls |-> <<"getUniversalSSL">>]
  ELSE [changed |-> remote.universalSSL # (dc.Metadata[metaUniversalSSL] # "off"),
        newState |-> dc.Metadata[metaUniversalSSL] # "off",
        err |-> NoErr, calls |-> <<"getUniversalSSL">>]

\* What one call of GetDomainCorrections leaves behind: how it ended ("ok", an
\* "error" returned, "fatal" for log.Fatalf, "panic"), the plan, the network
\* calls in order, dc as the call leaves it, the desired records as the loop of
\* lines 132-145 leaves them, the provider records fetched, the actual
\* records handed to the differ and the warnings printed.
Result(status, err, corrections, calls, dc, normalized, fetched, actual) ==
  [status |-> status, err |-> err, corrections |-> corrections, calls |-> calls,
   dc |-> dc, normalized |-> normalized, fetched |-> fetched, actual |-> actual,
   warnings |-> <<>>]

\* Lines 198-210: the Universal SSL correction.
cfZoneCorrections(ssl) ==
  IF ssl.err = NoErr /\ ssl.changed
  THEN <<Correction("universalssl", NilRecord, NilRecord, FALSE, ssl.newState)>>
  ELSE <<>>

\* Lines 147-213, on the desired records the loop of lines 132-145 left.
cfPlan(dc, normalized, remote, records, calls, ssl) ==
  [Result("ok", NoErr,
          RecordCorrections(IncrementalDiff(dc.Records, records, "cloudflare"), "cloudflare")
          \o cfZoneCorrections(ssl),
          calls \o ssl.calls, dc, normalized, remote.records, records)
   EXCEPT !.warnings = checkNSWarnings([dc EXCEPT !.Records = normalized])]

\* Lines 132-213, loop being what the loop of lines 132-145 left.
cfAfterLoop(dc, loop, remote, records, calls) ==
  IF loop.fatal
  THEN Result("fatal", "ignored_label", <<>>, calls, [dc EXCEPT !.Records = loop.recs],
              loop.recs, remote.records, records)
  ELSE cfPlan(checkNSModifications([dc EXCEPT !.Records = loop.recs]), loop.recs, remote,
              records, calls,
              checkUniversalSSL(checkNSModifications([dc EXCEPT !.Records = loop.recs]),
                                remote))

\* Lines 115-130: the fetched records without the ignored labels, then the page
\* rules when redirects are managed.
cfActual(c, remote, recs) ==
  FilterIgnored(recs, Len(recs), c.ignoredLabels)
  \o (IF c.manageRedirects THEN PageRuleRecords(remote.pageRules) ELSE <<>>)

\* Lines 111-213, fetched being what getRecordsForDomain made of the zone's records.
cfAfterFetch(c, dc, remote, fetched) ==
  IF fetched.panic
  THEN Result("panic", "unparsable", <<>>, <<"getRecordsForDomain">>, dc, <<>>,
              remote.records, <<>>)
  ELSE cfAfterLoop(dc, ForceLoop(dc.Records, 1, c.ignoredLabels), remote,
                   cfActual(c, remote, fetched.recs),
                   <<"getRecordsForDomain">>
                   \o (IF c.manageRedirects THEN <<"getPageRules">> ELSE <<>>))

\* Lines 107-213, pre being what preprocessConfig left.
cfAfterPreprocess(c, pre, remote) ==
  IF pre.err # NoErr
  THEN Result("error", pre.err, <<>>, <<>>, pre.dc, <<>>, <<>>, <<>>)
  ELSE cfAfterFetch(c, pre.dc, remote, ConvertAll(remote.records, "cloudflare"))

\* CloudflareApi.GetDomainCorrections, lines 96-213.
cfGetDomainCorrections(c, dc, remote) ==
  IF dc.Name \notin c.zones
  THEN Result("error", "zone_not_found", <<>>, <<>>, dc, <<>>, <<>>, <<>>)
  ELSE cfAfterPreprocess(c, preprocessConfig(c, dc), remote)

\* idna.ToASCII on the labels of the model.
ToASCII(label) ==
  CASE label = "b\\u00fccher" -> "xn--bcher-kva"
    [] OTHER -> label

\* DomainConfig.Punycode: every record name in its ASCII form.
Punycode(dc) ==
  [dc EXCEPT !.Records = MapSeq(@, LAMBDA rec : [rec EXCEPT !.Name = ToASCII(@)])]

\* Lines 137-144: REFRESH after the record-level corrections, if there are any.
ovhPlan(corrections) ==
  IF Len(corrections) > 0
  THEN corrections \o <<Correction("refresh", NilRecord, NilRecord, FALSE, FALSE)>>
  ELSE corrections

\* Lines 96-147, fetched being the conversion of the records fetchRecords returned.
ovhAfterFetch(dc, remote, fetched) ==
  IF fetched.panic
  THEN Result("panic", "unparsable", <<>>, <<"fetchRecords">>, dc, <<>>, remote.records, <<>>)
  ELSE Result("ok", NoErr,
              ovhPlan(RecordCorrections(IncrementalDiff(dc.Records, fetched.recs, "ovh"),
                                        "ovh")),
              <<"fetchRecords">>, dc, dc.Records, remote.records, fetched.recs)

\* Lines 87-147, dc being what Punycode left.
ovhAfterPunycode(c, dc, remote) ==
  IF dc.Name \notin c.zones
  THEN Result("error", "zone_not_found", <<>>, <<>>, dc, <<>>, <<>>, <<>>)
  ELSE ovhAfterFetch(dc, remote, ConvertAll(remote.records, "ovh"))

\* ovhProvider.GetDomainCorrections, lines 83-147.
ovhGetDomainCorrections(c, dc, remote) == ovhAfterPunycode(c, Punycode(dc), remote)

\* ------------------------------------------------------------- the provider
\* The trailing dot of an absolute name is not part of a provider's content.
StripDot(s) ==
  CASE s = "example.net." -> "example.net"
    [] s = "ns.other.com." -> "ns.other.com"
    [] s = "ns1.ns.cloudflare.com." -> "ns1.ns.cloudflare.com"
    [] OTHER -> s

cfRecord(type, name, content, proxiable, proxied, ttl, priority) ==
  [ID |-> 0, Type |-> type, Name |-> name, Content |-> content, Proxiable |-> proxiable,
   Proxied |-> proxied, TTL |-> ttl, Priority |-> priority]

pageRule(target) == [ID |-> 0, Target |-> target]

ovhRecord(fieldType, subDomain, target, ttl) ==
  [ID |-> 0, FieldType |-> fieldType, SubDomain |-> subDomain, Target |-> target, TTL |-> ttl]

WithIDs(natives, base) == [i \in 1..Len(natives) |-> [natives[i] EXCEPT !.ID = base + i]]

WithoutID(natives, id) == SelectSeq(natives, LAMBDA n : n.ID # id)

newCfRecord(d, id) ==
  [cfRecord(d.Type, LabelFQDN(d.Name), StripDot(d.Target[1]),
            d.Type \in {"A", "AAAA", "CNAME"}, d.Metadata[metaProxy] # "off", d.TTL, "")
   EXCEPT !.ID = id]

newOvhRecord(d, id) ==
  [ovhRecord(d.Type, IF d.Name = "@" THEN "" ELSE d.Name, StripDot(d.Target[1]), d.TTL)
   EXCEPT !.ID = id]

\* The provider's page rules after the action of a PAGE_RULE correction.
ExecuteRule(corr, r) ==
  CASE corr.kind = "delete" ->
         [r EXCEPT !.pageRules = WithoutID(@, corr.Existing.Original.ID)]
    [] corr.kind = "create" ->
         [r EXCEPT !.pageRules = Append(@, [pageRule(corr.Desired.Target) EXCEPT !.ID = r.nextID]),
                   !.nextID = @ + 1]
    [] OTHER ->
         [r EXCEPT !.pageRules = MapSeq(@, LAMBDA n :
            IF n.ID = corr.Existing.Original.ID
            THEN [n EXCEPT !.Target = corr.Desired.Target] ELSE n)]

\* The provider's state after the action of one correction has succeeded.
Execute(corr, r, provider) ==
  CASE corr.kind \in ZoneKinds ->
         IF corr.kind = "universalssl" THEN [r EXCEPT !.universalSSL = corr.newState] ELSE r
    [] corr.kind \in RecordKinds
       /\ (corr.Existing.Type = "PAGE_RULE" \/ corr.Desired.Type = "PAGE_RULE") ->
         ExecuteRule(corr, r)
    [] corr.kind = "delete" /\ corr.Existing.Type # "PAGE_RULE" ->
         [r EXCEPT !.records = WithoutID(@, corr.Existing.Original.ID)]
    [] corr.kind = "create" /\ corr.Desired.Type # "PAGE_RULE" ->
         [r EXCEPT !.records = Append(@, IF provider = "ovh"
                                         THEN newOvhRecord(corr.Desired, r.nextID)
                                         ELSE newCfRecord(corr.Desired, r.nextID)),
                   !.nextID = @ + 1]
    [] corr.kind = "modify" /\ corr.Desired.Type # "PAGE_RULE" /\ provider = "cloudflare" ->
         [r EXCEPT !.records = MapSeq(@, LAMBDA n :
            IF n.ID = corr.Existing.Original.ID
            THEN [n EXCEPT !.Content = StripDot(corr.Desired.Target[1]),
                           !.TTL = corr.Desired.TTL, !.Proxied = corr.proxy]
            ELSE n)]
    [] corr.kind = "modify" /\ corr.Desired.Type # "PAGE_RULE" /\ provider = "ovh" ->
         [r EXCEPT !.records = MapSeq(@, LAMBDA n :
            IF n.ID = corr.Existing.Original.ID
            THEN [n EXCEPT !.Target = StripDot(corr.Desired.Target[1]),
                           !.TTL = corr.Desired.TTL]
            ELSE n)]

\* ------------------------------------------------------------- spflib
\* An SPF text is the sequence of its space-separated fields
\* (strings.Split(text, " ")): "v=spf1 " alone is <<"v=spf1", "">>.

\* The domains the resolver knows.
Domains == {"d1", "d2"}

\* What Resolver.GetSPF gives when it returns an error.
NoSPFText == <<>>

\* strings.HasPrefix(text, "v=spf1 ")
HasSPFPrefix(text) == Len(text) >= 2 /\ text[1] = "v=spf1"

\* Lines 60-62: the part without its qualifier.
StripQualifier(part) ==
  CASE part = "-all" -> "all"
    [] part = "~all" -> "all"
    [] OTHER -> part

\* Lines 64-98: the branch a part (without qualifier) takes.
PartKind(part) ==
  CASE part = "all" -> "all"
    [] part \in {"a", "mx"} -> "lookup"
    [] part = "ip4:10.0.0.1" -> "ip"
    [] part \in {"include:d1", "include:d2"} -> "include"
    [] part \in {"redirect:d1", "redirect:d2"} -> "redirect"
    [] part = "exists:x" -> "lookup"
    [] OTHER -> "unsupported"

\* strings.TrimPrefix(part, "include:") and strings.TrimPrefix(part, "redirect:")
IncludeDomainOf(part) ==
  CASE part \in {"include:d1", "redirect:d1"} -> "d1"
    [] part \in {"include:d2", "redirect:d2"} -> "d2"
    [] OTHER -> part

\* SPFPart; IncludeRecord is <<>> for nil, <<rec>> for a record.
SPFPart(text, isLookup, includeDomain) ==
  [Text |-> text, IsLookup |-> isLookup, IncludeRecord |-> <<>>,
   IncludeDomain |-> includeDomain]

SPFRecord(parts) == [Parts |-> parts]

\* SPFRecord.Lookups over the first n parts of a record.
RECURSIVE LookupsUpTo(_, _)
LookupsUpTo(parts, n) ==
  IF n = 0 THEN 0
  ELSE LookupsUpTo(parts, n - 1)
       + (IF parts[n].IsLookup THEN 1 ELSE 0)
       + (IF parts[n].IncludeRecord = <<>> THEN 0
          ELSE LookupsUpTo(parts[n].IncludeRecord[1].Parts,
                           Len(parts[n].IncludeRecord[1].Parts)))

Lookups(rec) == LookupsUpTo(rec.Parts, Len(rec.Parts))

\* One activation of Parse: the domain whose text it parses ("" for the first
\* call), the fields of the text, the field it is at (1: at the prefix check)
\* and rec.Parts so far.
Frame(domain, text) == [domain |-> domain, parts |-> text, pi |-> 1, rec |-> <<>>]

Top(stack) == stack[Len(stack)]

Pop(stack) == SubSeq(stack, 1, Len(stack) - 1)

ReplaceTop(stack, frame) == [stack EXCEPT ![Len(stack)] = frame]

\* What a call of Parse returns to its caller.
Returns(status, err, parts) == [status |-> status, err |-> err, rec |-> SPFRecord(parts)]

NoReturn == Returns("none", NoErr, <<>>)

\* Lines 59-63: the part appended to rec.Parts.
WithPart(frame, part) == [frame EXCEPT !.rec = Append(@, part)]

Advance(frame) == [frame EXCEPT !.pi = @ + 1]

\* Line 89: the record of the included text stored in the part that names it.
WithIncludeRecord(frame, rec) ==
  [frame EXCEPT !.rec[Len(frame.rec)].IncludeRecord = <<rec>>]

\* ------------------------------------------------------------- state
VARIABLES
  provider,   \* "cloudflare" or "ovh"
  c,          \* the provider handle: zones of the account, ignoredLabels, manageRedirects, ipConversions
  declared,   \* the zone's desired state as the caller declares it
  dc,         \* the DomainConfig the provider is handed (changed in place)
  remote,     \* what the provider holds for the zone
  pc,         \* "idle", "returned" (GetDomainCorrections ended), "pre" (preprocessConfig called directly)
  ret,        \* what the last GetDomainCorrections left behind
  todo,       \* corrections of the returned plan not yet run
  pass,       \* calls of GetDomainCorrections so far
  pre,        \* direct calls of preprocessConfig: their errors, dc before the last one, the value its error holds
  spfText,    \* the text Parse is called with
  dnsres,     \* the resolver: the SPF text of each domain, or NoSPFText
  spfPc,      \* "off", "idle", "parsing", "done" (Parse returned), "counted" (Lookups returned)
  spfStack,   \* the activations of Parse, the innermost last
  spfRet,     \* what the activation that just ended returns
  spfResult   \* what the first call of Parse returned

dnsVars == <<provider, c, declared, dc, remote, pc, ret, todo, pass, pre>>

spfVars == <<spfText, dnsres, spfPc, spfStack, spfRet, spfResult>>

vars == <<provider, c, declared, dc, remote, pc, ret, todo, pass, pre,
          spfText, dnsres, spfPc, spfStack, spfRet, spfResult>>

Desired(name, type, target, ttl, proxy) ==
  [RecordConfig(name, type, target, ttl, 0, NilOriginal) EXCEPT !.Metadata[metaProxy] = proxy]

DomainConfig(records, proxyDefault, universalSSL) ==
  [Name |-> ZoneName, Records |-> records,
   Metadata |-> [cloudflare_proxy_default |-> proxyDefault,
                 cloudflare_universalssl |-> universalSSL]]

NoResult ==
  Result("none", NoErr, <<>>, <<>>, DomainConfig(<<>>, "", ""), <<>>, <<>>, <<>>)

SeqsUpTo(S, n) == UNION {[1..k -> S] : k \in 0..n}

\* ------------------------------------------------------------- inputs
\* Desired records that exercise the normalizer: every TTL class, every proxy
\* value, redirects well and ill formed, apex and other NS records, an ALIAS.
NormalizerRecords ==
  {Desired("www", "A", <<"10.0.0.1">>, t, "off") : t \in {0, 1, 60, 300, 600}}
  \cup {Desired("www", "A", <<"10.0.0.1">>, 600, p) : p \in {"", "ON", "full", "BAD"}}
  \cup {Desired("www", "A", <<"not-an-ip">>, 300, "full"),
        Desired("x", "TXT", <<"v">>, 60, ""),
        Desired("www", "TXT", <<"v">>, 300, "on"),
        Desired("@", "CF_REDIRECT", <<"a", "b">>, 300, ""),
        Desired("@", "CF_TEMP_REDIRECT", <<"c", "d">>, 300, ""),
        Desired("@", "CF_REDIRECT", <<"a">>, 300, ""),
        Desired("@", "NS", <<"ns1.ns.cloudflare.com.">>, 300, ""),
        Desired("@", "NS", <<"ns.other.com.">>, 300, ""),
        Desired("www", "NS", <<"ns.other.com.">>, 300, ""),
        Desired("www", "ALIAS", <<"example.net.">>, 300, "")}

\* Valid desired records for the differ.
DifferRecords ==
  {Desired("www", "A", <<"10.0.0.1">>, 600, "off"),
   Desired("www", "A", <<"10.0.0.1">>, 300, "on"),
   Desired("@", "TXT", <<"v">>, 600, "")}

\* Records Cloudflare may hold: proxied or not, proxiable or not, of an ignored
\* label, and one that does not convert.
cfRecords ==
  {cfRecord("A", "www.example.com", "10.0.0.1", TRUE, FALSE, 600, ""),
   cfRecord("A", "www.example.com", "10.0.0.1", FALSE, FALSE, 1, ""),
   cfRecord("A", "www.example.com", "10.0.0.1", TRUE, TRUE, 1, ""),
   cfRecord("TXT", "x.example.com", "v", FALSE, FALSE, 600, ""),
   cfRecord("MX", "example.com", "mail.example.com", FALSE, FALSE, 600, "high")}

ovhDesiredRecords ==
  {Desired("www", "A", <<"10.0.0.1">>, 300, ""),
   Desired("www", "A", <<"10.0.0.1">>, 3600, ""),
   Desired("@", "TXT", <<"v">>, 300, ""),
   Desired("b\\u00fccher", "A", <<"10.0.0.1">>, 300, "")}

ovhRecords ==
  {ovhRecord("A", "www", "10.0.0.1", 0),
   ovhRecord("TXT", "", "v", 300),
   ovhRecord("SPF", "", "v", 300),
   ovhRecord("SOA", "", "ns.ovh.net. tech.ovh.net. 1 2 3 4 5", 0),
   ovhRecord("A", "www", "garbage", 0)}

Handle(zones, ignoredLabels, manageRedirects) ==
  [zones |-> zones, ignoredLabels |-> ignoredLabels, manageRedirects |-> manageRedirects,
   ipConversions |-> <<[Low |-> 1, High |-> 2, NewBase |-> 2]>>]

Remote(records, rules, ssl, sslError) ==
  [records |-> WithIDs(records, 0), pageRules |-> WithIDs(rules, Len(records)),
   universalSSL |-> ssl, sslError |-> sslError,
   nextID |-> Len(records) + Len(rules) + 1]

Start(p, handle, config, r) ==
  /\ provider = p
  /\ c = handle
  /\ declared = config
  /\ dc = config
  /\ remote = r
  /\ pc = "idle"
  /\ ret = NoResult
  /\ todo = <<>>
  /\ pass = 0
  /\ pre = [errs |-> <<>>, before |-> config, msg |-> ""]

\* Cloudflare, the normalizer's inputs: any desired records, zone defaults and
\* provider options, against a zone that holds at most one page rule.
InitNormalizer ==
  \E records \in SeqsUpTo(NormalizerRecords, MaxDesired),
     proxyDefault \in {"", "FULL"},
     ignoredLabels \in {<<>>, <<"x">>},
     manageRedirects \in BOOLEAN,
     rules \in {<<>>, <<pageRule(<<"a", "b", "1", "301">>)>>} :
    /\ (~manageRedirects => rules = <<>>)
    /\ Start("cloudflare", Handle({ZoneName}, ignoredLabels, manageRedirects),
             DomainConfig(records, proxyDefault, ""),
             Remote(<<>>, rules, FALSE, FALSE))

\* Cloudflare, the differ's inputs: valid desired records against any records
\* of the provider.
InitDiffer ==
  \E records \in SeqsUpTo(DifferRecords, MaxDesired),
     actual \in SeqsUpTo(cfRecords, MaxActual),
     ignoredLabels \in {<<>>, <<"x">>},
     universalSSL \in {"", "on"},
     ssl \in BOOLEAN :
    Start("cloudflare", Handle({ZoneName}, ignoredLabels, FALSE),
          DomainConfig(records, "", universalSSL),
          Remote(actual, <<>>, ssl, FALSE))

\* Cloudflare, the zone's inputs: the zone present or absent, every value of the
\* zone's metadata and every state of Universal SSL.
InitZone ==
  \E records \in {<<>>, <<Desired("www", "A", <<"10.0.0.1">>, 300, "")>>},
     actual \in {<<>>,
                 <<cfRecord("A", "www.example.com", "10.0.0.1", TRUE, FALSE, 1, "")>>,
                 <<cfRecord("A", "www.example.com", "garbage", FALSE, FALSE, 600, "")>>},
     zones \in {{ZoneName}, {}},
     proxyDefault \in {"", "BAD"},
     universalSSL \in {"", "on", "off", "ON", "OFF", "BAD"},
     ssl \in BOOLEAN,
     sslError \in BOOLEAN :
    /\ (zones = {} => actual = <<>>)
    /\ Start("cloudflare", Handle(zones, <<>>, FALSE),
             DomainConfig(records, proxyDefault, universalSSL),
             Remote(actual, <<>>, ssl, sslError))

InitOVH ==
  \E records \in SeqsUpTo(ovhDesiredRecords, MaxDesired),
     actual \in SeqsUpTo(ovhRecords, MaxActual),
     zones \in {{ZoneName}, {}} :
    /\ (zones = {} => actual = <<>>)
    /\ Start("ovh", Handle(zones, <<>>, FALSE),
             DomainConfig(records, "", ""),
             Remote(actual, <<>>, FALSE, FALSE))

\* No SPF text is being parsed.
NoParse(text, resolver, at) ==
  /\ spfText = text
  /\ dnsres = resolver
  /\ spfPc = at
  /\ spfStack = <<>>
  /\ spfRet = NoReturn
  /\ spfResult = NoReturn

Init ==
  /\ InitNormalizer \/ InitDiffer \/ InitZone \/ InitOVH
  /\ NoParse(<<>>, [d \in Domains |-> NoSPFText], "off")

\* ------------------------------------------------------------- actions
Returned(result) ==
  /\ ret' = result
  /\ dc' = result.dc
  /\ todo' = result.corrections
  /\ pc' = "returned"
  /\ pass' = pass + 1
  /\ UNCHANGED <<provider, c, declared, remote, pre>>
  /\ UNCHANGED spfVars

cfGetDomainCorrectionsCall ==
  /\ provider = "cloudflare"
  /\ pc = "idle"
  /\ Returned(cfGetDomainCorrections(c, dc, remote))

ovhGetDomainCorrectionsCall ==
  /\ provider = "ovh"
  /\ pc = "idle"
  /\ Returned(ovhGetDomainCorrections(c, dc, remote))

\* The caller runs the next correction of the plan, and it succeeds.
RunCorrection ==
  /\ pc = "returned"
  /\ todo # <<>>
  /\ remote' = Execute(Head(todo), remote, provider)
  /\ todo' = Tail(todo)
  /\ UNCHANGED <<provider, c, declared, dc, pc, ret, pass, pre>>
  /\ UNCHANGED spfVars

\* A new reconciliation pass (a new run of the program) on the declared state,
\* once every correction of the plan has run.
NextPass ==
  /\ pc = "returned"
  /\ ret.status = "ok"
  /\ todo = <<>>
  /\ pass < MaxPasses
  /\ dc' = declared
  /\ pc' = "idle"
  /\ UNCHANGED <<provider, c, declared, remote, ret, todo, pass, pre>>
  /\ UNCHANGED spfVars

\* c.preprocessConfig(dc) called on its own, possibly again on what it left.
preprocessConfigCall ==
  /\ provider = "cloudflare"
  /\ pc \in {"idle", "pre"}
  /\ pass = 0
  /\ Len(pre.errs) < MaxPreRuns
  /\ LET res == preprocessConfig(c, dc)
     IN /\ dc' = res.dc
        /\ pre' = [errs |-> Append(pre.errs, res.err), before |-> dc, msg |-> res.msg]
  /\ pc' = "pre"
  /\ UNCHANGED <<provider, c, declared, remote, ret, todo, pass>>
  /\ UNCHANGED spfVars

Next ==
  \/ cfGetDomainCorrectionsCall
  \/ ovhGetDomainCorrectionsCall
  \/ RunCorrection
  \/ NextPass
  \/ preprocessConfigCall

Spec == Init /\ [][Next]_vars

\* ------------------------------------------------------------- spflib.Parse
\* Texts of the model: plain mechanisms, includes and redirects of both
\* domains, a redirect that is not last, an empty field, an unsupported part,
\* and a text that is no SPF record.
SPFTexts ==
  {<<"v=spf1", "ip4:10.0.0.1", "-all">>,
   <<"v=spf1", "include:d1", "-all">>,
   <<"v=spf1", "include:d2", "mx">>,
   <<"v=spf1", "a", "redirect:d1">>,
   <<"v=spf1", "redirect:d2", "~all">>,
   <<"v=spf1", "", "exists:x", "bogus">>,
   <<"spf2.0/pra", "a">>}

InitSPF ==
  /\ Start("spf", Handle({}, <<>>, FALSE), DomainConfig(<<>>, "", ""),
           Remote(<<>>, <<>>, FALSE, FALSE))
  /\ \E text \in SPFTexts, resolver \in [Domains -> SPFTexts \cup {NoSPFText}] :
       NoParse(text, resolver, "idle")

\* The activation on top of the stack ends and returns to its caller.
Return(status, err, parts) ==
  /\ spfStack' = Pop(spfStack)
  /\ spfRet' = Returns(status, err, parts)
  /\ UNCHANGED <<spfText, dnsres, spfPc, spfResult>>

\* The activation on top of the stack goes on as frame.
Continue(frame) ==
  /\ spfStack' = ReplaceTop(spfStack, frame)
  /\ UNCHANGED <<spfText, dnsres, spfPc, spfRet, spfResult>>

Parsing == spfPc = "parsing" /\ spfStack # <<>> /\ spfRet.status = "none"

AtPart == Parsing /\ Top(spfStack).pi \in 2..Len(Top(spfStack).parts)

\* The field the innermost activation is at, and the part made of it.
CurrentField == Top(spfStack).parts[Top(spfStack).pi]

CurrentKind == PartKind(StripQualifier(CurrentField))

IsLastField == Top(spfStack).pi = Len(Top(spfStack).parts)

Recurses ==
  /\ CurrentField # ""
  /\ CurrentKind = "include" \/ (CurrentKind = "redirect" /\ IsLastField)

\* Parse(text, dnsres) is called.
ParseCall ==
  /\ spfPc = "idle"
  /\ spfStack' = <<Frame("", spfText)>>
  /\ spfPc' = "parsing"
  /\ UNCHANGED <<spfText, dnsres, spfRet, spfResult>>
  /\ UNCHANGED dnsVars

\* Lines 50-54: the prefix check of an activation.
ParseEnter ==
  /\ Parsing
  /\ Top(spfStack).pi = 1
  /\ IF HasSPFPrefix(Top(spfStack).parts)
     THEN Continue(Advance(Top(spfStack)))
     ELSE Return("error", "not_spf", <<>>)
  /\ UNCHANGED dnsVars

\* Lines 55-71 and 94-98: a field that makes no call of Parse.
ParsePart ==
  /\ AtPart
  /\ ~Recurses
  /\ CASE CurrentField = "" -> Continue(Advance(Top(spfStack)))
       [] CurrentField # "" /\ CurrentKind = "all" ->
            Return("ok", NoErr, Append(Top(spfStack).rec, SPFPart(CurrentField, FALSE, "")))
       [] CurrentField # "" /\ CurrentKind = "lookup" ->
            Continue(Advance(WithPart(Top(spfStack), SPFPart(CurrentField, TRUE, ""))))
       [] CurrentField # "" /\ CurrentKind = "ip" ->
            Continue(Advance(WithPart(Top(spfStack), SPFPart(CurrentField, FALSE, ""))))
       [] CurrentField # "" /\ CurrentKind = "redirect" ->
            Return("error", "redirect_not_last", <<>>)
       [] CurrentField # "" /\ CurrentKind = "unsupported" ->
            Return("error", "unsupported", <<>>)
  /\ UNCHANGED dnsVars

\* Lines 72-93: an include or a last redirect: the resolver is asked for the
\* domain's text and Parse is called on it.
ParseInclude ==
  /\ AtPart
  /\ Recurses
  /\ IF dnsres[IncludeDomainOf(StripQualifier(CurrentField))] = NoSPFText
     THEN Return("error", "get_spf", <<>>)
     ELSE /\ Len(spfStack) < MaxSPFDepth
          /\ spfStack' =
               Append(ReplaceTop(spfStack,
                                 WithPart(Top(spfStack),
                                          SPFPart(CurrentField, TRUE,
                                                  IncludeDomainOf(StripQualifier(CurrentField))))),
                      Frame(IncludeDomainOf(StripQualifier(CurrentField)),
                            dnsres[IncludeDomainOf(StripQualifier(CurrentField))]))
          /\ UNCHANGED <<spfText, dnsres, spfPc, spfRet, spfResult>>
  /\ UNCHANGED dnsVars

\* Line 101: every field is done.
ParseFrameEnd ==
  /\ Parsing
  /\ Top(spfStack).pi > Len(Top(spfStack).parts)
  /\ Return("ok", NoErr, Top(spfStack).rec)
  /\ UNCHANGED dnsVars

\* Lines 89-92 in the caller, or the return of the first call.
ParseReturn ==
  /\ spfPc = "parsing"
  /\ spfRet.status # "none"
  /\ IF spfStack = <<>>
     THEN /\ spfResult' = spfRet
          /\ spfPc' = "done"
          /\ spfRet' = NoReturn
          /\ UNCHANGED <<spfText, dnsres, spfStack>>
     ELSE IF spfRet.status = "error"
     THEN Return("error", "in_included", <<>>)
     ELSE /\ spfStack' = ReplaceTop(spfStack,
                                    Advance(WithIncludeRecord(Top(spfStack), spfRet.rec)))
          /\ spfRet' = NoReturn
          /\ UNCHANGED <<spfText, dnsres, spfPc, spfResult>>
  /\ UNCHANGED dnsVars

\* rec.Lookups() on the record Parse returned; err holds the count.
LookupsCall ==
  /\ spfPc = "done"
  /\ spfResult.status = "ok"
  /\ spfResult' = [spfResult EXCEPT !.err = ToString(Lookups(spfResult.rec))]
  /\ spfPc' = "counted"
  /\ UNCHANGED <<spfText, dnsres, spfStack, spfRet>>
  /\ UNCHANGED dnsVars

NextSPF ==
  \/ ParseCall
  \/ ParseEnter
  \/ ParsePart
  \/ ParseInclude
  \/ ParseFrameEnd
  \/ ParseReturn
  \/ LookupsCall

SpecSPF == InitSPF /\ [][NextSPF]_vars

\* ------------------------------------------------------------- properties
Plan == ret.corrections

Called == pc = "returned"

IsIgnored(label) == labelMatches(label, c.ignoredLabels)

\* The place of a correction in the ordering contract.
KindRank(kind) ==
  CASE kind = "delete" -> 0
    [] kind = "create" -> 1
    [] kind = "modify" -> 2
    [] OTHER -> 3

\* C1: in every plan GetDomainCorrections returns (Cloudflare and OVH), deletes
\* come before creates, creates before modifies, and the zone-level correction
\* (REFRESH zone, Universal SSL) after every record-level correction.
C1_PlanOrdered ==
  \A i, j \in 1..Len(Plan) :
    i < j => KindRank(Plan[i].kind) <= KindRank(Plan[j].kind)

HasKind(kind) == \E i \in 1..Len(Plan) : Plan[i].kind = kind

C1_Witness ==
  /\ Called
  /\ provider = "cloudflare"
  /\ HasKind("delete") /\ HasKind("create") /\ HasKind("modify") /\ HasKind("universalssl")

\* What an accepted cloudflare_universalssl value asks for: "on" or "off" in
\* any letter case.
DesiredSSL(v) == ToLower(v) = "on"

SSLDiffers ==
  /\ provider = "cloudflare"
  /\ declared.Metadata[metaUniversalSSL] # ""
  /\ DesiredSSL(declared.Metadata[metaUniversalSSL]) # remote.universalSSL

\* C2: a returned plan holds a zone-level correction only if it holds a
\* record-level correction or the zone-level property differs between desired
\* and actual (stated of the plan before any of its corrections has run, when
\* the provider's state is the one the plan was computed from).
C2_ZoneLevelOnlyWhenNeeded ==
  (Called /\ ret.status = "ok" /\ todo = Plan) =>
    \A i \in 1..Len(Plan) :
      Plan[i].kind \in ZoneKinds =>
        \/ \E j \in 1..Len(Plan) : Plan[j].kind \in RecordKinds
        \/ SSLDiffers

\* C3: when a call of preprocessConfig succeeds, the next call on the records it
\* left succeeds too and changes nothing.
C3_NormalizationIdempotent ==
  (Len(pre.errs) >= 2 /\ pre.errs[Len(pre.errs) - 1] = NoErr) =>
    /\ pre.errs[Len(pre.errs)] = NoErr
    /\ dc = pre.before

\* C4: after every correction of a plan has run, the plan of the next pass is
\* empty.
C4_Convergence ==
  (Called /\ pass >= 2 /\ ret.status = "ok") => Plan = <<>>

\* The TTL normalization as the claim states it.
ClaimedTTL(ttl) ==
  IF ttl = 0 \/ ttl = 300 THEN 1
  ELSE IF ttl # 1 /\ ttl < 120 THEN 120
  ELSE ttl

\* C5 as stated: after Cloudflare's normalization the TTL of every desired record
\* is positive and is the claimed function of the TTL it was declared with.
C5_TTLOfDeclaredTTLOnly ==
  (Called /\ provider = "cloudflare" /\ ret.status = "ok") =>
    \A i \in 1..Len(ret.normalized) :
      /\ ret.normalized[i].TTL > 0
      /\ ret.normalized[i].TTL = ClaimedTTL(declared.Records[i].TTL)

\* C5 as amended: preprocessConfig leaves every record the claimed function of
\* its declared TTL; GetDomainCorrections then forces TTL 1 on every record whose
\* cloudflare_proxy is not "off", so that after normalization the TTL is positive
\* and depends on the declared TTL and on the record's proxy setting.
C5_TTLNormalized ==
  /\ (pc = "pre" /\ pre.errs = <<NoErr>>) =>
       \A i \in 1..Len(dc.Records) :
         dc.Records[i].TTL = ClaimedTTL(declared.Records[i].TTL)
  /\ (Called /\ provider = "cloudflare" /\ ret.status = "ok") =>
       \A i \in 1..Len(ret.normalized) :
         /\ ret.normalized[i].TTL > 0
         /\ ret.normalized[i].TTL =
              IF ret.normalized[i].Metadata[metaProxy] # "off" THEN 1
              ELSE ClaimedTTL(declared.Records[i].TTL)

C5_Witness ==
  /\ Called /\ provider = "cloudflare" /\ ret.status = "ok"
  /\ \E i, j \in 1..Len(ret.normalized) :
       /\ declared.Records[i].TTL = 60 /\ ret.normalized[i].TTL = 120
       /\ declared.Records[j].TTL = 600 /\ ret.normalized[j].TTL = 1

ConfigurationErrors ==
  {"bad_proxy", "proxy_on_type", "redirects_disabled", "bad_redirect", "bad_universalssl",
   "ignored_label"}

\* C6: a run of Cloudflare's GetDomainCorrections that ends in a configuration
\* error has made no network call and returns no correction.
C6_ConfigurationErrorsBeforeNetwork ==
  (Called /\ provider = "cloudflare" /\ ret.err \in ConfigurationErrors) =>
    /\ ret.calls = <<>>
    /\ Plan = <<>>

DnsRecords(recs) == SelectSeq(recs, LAMBDA r : r.Type # "PAGE_RULE")

\* C7: the actual DNS records Cloudflare's differ is handed are the fetched ones
\* without those of an ignored label, in their order; a plan is returned only if
\* no desired label is ignored (the run is fatal otherwise); so no record-level
\* correction of a plan is for a DNS record of an ignored label.
C7_ExclusionFiltering ==
  (Called /\ provider = "cloudflare") =>
    /\ ret.status \in {"ok", "fatal"} =>
         DnsRecords(ret.actual) =
           SelectSeq(ConvertAll(ret.fetched, "cloudflare").recs,
                     LAMBDA r : ~IsIgnored(r.Name))
    /\ ret.status = "ok" =>
         \A i \in 1..Len(declared.Records) : ~IsIgnored(declared.Records[i].Name)
    /\ ret.status = "fatal" =>
         \E i \in 1..Len(declared.Records) : IsIgnored(declared.Records[i].Name)
    /\ \A i \in 1..Len(Plan) :
         /\ Plan[i].kind \in {"delete", "modify"} /\ Plan[i].Existing.Type # "PAGE_RULE"
              => ~IsIgnored(Plan[i].Existing.Name)
         /\ Plan[i].kind \in {"create", "modify"} /\ Plan[i].Desired.Type # "PAGE_RULE"
              => ~IsIgnored(Plan[i].Desired.Name)

C7_Witness ==
  /\ Called /\ provider = "cloudflare" /\ ret.status = "ok"
  /\ \E i \in 1..Len(ret.fetched) : IsIgnored(TrimDomainName(ret.fetched[i].Name))
  /\ \E i \in 1..Len(ret.fetched) : ~IsIgnored(TrimDomainName(ret.fetched[i].Name))
  /\ Plan # <<>>

\* A fetched record the provider leaves out on purpose: OVH's SOA record, a
\* Cloudflare record of an ignored label.
LeftOutOnPurpose(native) ==
  IF provider = "ovh" THEN native.FieldType = "SOA"
  ELSE IsIgnored(TrimDomainName(native.Name))

\* C8: a plan is returned only if every fetched record (but those left out on
\* purpose) is among the actual records the plan was computed from; a run that
\* meets a record it cannot convert ends in a panic and returns no plan.
C8_NoPartialIngestion ==
  /\ (Called /\ ret.status = "ok") =>
       \A i \in 1..Len(ret.fetched) :
         \/ LeftOutOnPurpose(ret.fetched[i])
         \/ \E k \in 1..Len(ret.actual) : ret.actual[k].Original.ID = ret.fetched[i].ID
  /\ (Called /\ ret.status = "panic") => Plan = <<>>

C8_Witness ==
  /\ Called
  /\ ret.status = "panic"
  /\ Len(ret.fetched) >= 2

\* C9: when the zone is absent from the account, GetDomainCorrections returns an
\* error and no correction, makes no network call, and leaves the desired
\* records as they were declared.
C9_ZoneAbsent ==
  (Called /\ ZoneName \notin c.zones) =>
    /\ ret.status = "error"
    /\ Plan = <<>>
    /\ ret.calls = <<>>
    /\ dc = declared

\* C10: when preprocessConfig returns an error, the desired records are as they
\* were before the call.
C10_PartialResultsDiscarded ==
  (pc = "pre" /\ pre.errs[Len(pre.errs)] # NoErr) => dc.Records = pre.before.Records

\* The redirects of the declared records, and how many of them are declared
\* after index i.
IsRedirect(i) == IsRedirectType(declared.Records[i].Type)

RedirectsAfter(i) ==
  Cardinality({j \in 1..Len(declared.Records) : j > i /\ IsRedirect(j)})

RedirectCode(type) == IF type = "CF_TEMP_REDIRECT" THEN "302" ELSE "301"

PreprocessedOnce == pc = "pre" /\ Len(pre.errs) = 1

\* C11: when preprocessConfig succeeds, every declared redirect is a PAGE_RULE
\* record "from,to,priority,code" (301 permanent, 302 temporary), the priorities
\* of the n redirects are 1..n and one declared earlier has the higher priority
\* (the priority is 1 + the number of redirects declared after it); with
\* manage_redirects disabled or a target that has not two fields the call fails.
C11_RedirectEncoding ==
  PreprocessedOnce =>
    /\ pre.errs[1] = NoErr =>
          \A i \in 1..Len(declared.Records) :
            IsRedirect(i) =>
              /\ c.manageRedirects
              /\ dc.Records[i].Type = "PAGE_RULE"
              /\ dc.Records[i].Target =
                    declared.Records[i].Target
                    \o <<ToString(1 + RedirectsAfter(i)),
                         RedirectCode(declared.Records[i].Type)>>
    /\ (\E i \in 1..Len(declared.Records) :
          IsRedirect(i) /\ (~c.manageRedirects \/ Len(declared.Records[i].Target) # 2))
         => pre.errs[1] # NoErr

C11_Witness ==
  /\ PreprocessedOnce
  /\ pre.errs[1] = NoErr
  /\ Len(declared.Records) = 2
  /\ IsRedirect(1) /\ IsRedirect(2)
  /\ declared.Records[1].Type # declared.Records[2].Type
  /\ dc.Records[1].Target[3] = "2"
  /\ dc.Records[2].Target[3] = "1"

ProxyValues == {"on", "off", "full"}

SuppliedProxy(i) == declared.Records[i].Metadata[metaProxy]

ZoneDefaultProxy ==
  IF declared.Metadata[metaProxyDefault] = "" THEN "off"
  ELSE ToLower(declared.Metadata[metaProxyDefault])

IsApexNS(rec) == rec.Type = "NS" /\ rec.Name = "@"

InFleet(target) == target = "ns1.ns.cloudflare.com."

NotApexNS(recs) == SelectSeq(recs, LAMBDA rec : ~IsApexNS(rec))

\* C13: of the desired records checkNSModifications is handed, every apex NS
\* record whose target is not a Cloudflare nameserver is dropped and warned
\* about (no other record is), and the records that are not apex NS records
\* are kept, in their order.
C13_ApexNSRestriction ==
  (Called /\ provider = "cloudflare" /\ ret.status = "ok") =>
    /\ \A k \in 1..Len(ret.dc.Records) :
         ~(IsApexNS(ret.dc.Records[k]) /\ ~InFleet(ret.dc.Records[k].Target[1]))
    /\ ret.warnings =
         MapSeq(SelectSeq(ret.normalized,
                          LAMBDA rec : IsApexNS(rec) /\ ~InFleet(rec.Target[1])),
                LAMBDA rec : rec.Target[1])
    /\ NotApexNS(ret.dc.Records) = NotApexNS(ret.normalized)

C13_Witness ==
  /\ Called /\ provider = "cloudflare" /\ ret.status = "ok"
  /\ Len(ret.normalized) = 2
  /\ Len(ret.dc.Records) = 1
  /\ ret.dc.Records[1].Type = "NS"
  /\ ret.warnings = <<"ns.other.com.">>

\* C15: for every cloudflare_universalssl value preprocessConfig accepts, the
\* returned plan holds the Universal SSL correction exactly when the provider's
\* state differs from the state the value means ("on" or "off" in any letter
\* case), and the correction sets that state (stated of the plan before any of
\* its corrections has run, when the provider's state could be read).
C15_UniversalSSLAgreement ==
  (/\ Called /\ provider = "cloudflare" /\ ret.status = "ok" /\ todo = Plan
   /\ declared.Metadata[metaUniversalSSL] # ""
   /\ ~remote.sslError) =>
    /\ HasKind("universalssl") <=>
         remote.universalSSL # DesiredSSL(declared.Metadata[metaUniversalSSL])
    /\ \A i \in 1..Len(Plan) :
         Plan[i].kind = "universalssl" =>
           Plan[i].newState = DesiredSSL(declared.Metadata[metaUniversalSSL])

\* C14: Parse terminates for every text and every resolver over the domains,
\* cyclic ones included, and its recursion depth is bounded.  Parse has no
\* state but its arguments: a nest of calls that terminates parses no domain
\* inside its own parse, so it is never deeper than the first call plus one
\* call per domain.
C14_ParseDepthBounded ==
  Len(spfStack) <= 1 + Cardinality(Domains)

====
